---- MODULE Spec2Model ----
(***************************************************************************)
(* A model of order.py: the EDIFACT ORDERS generator.                      *)
(*                                                                         *)
(* Text is modelled by TLA+ strings (character i of s is SubSeq(s, i, i)), *)
(* a Python dict by a function whose DOMAIN is the set of keys present, a  *)
(* Python list by a sequence, and a Decimal by its sign, coefficient and   *)
(* number of fraction digits.                                              *)
(***************************************************************************)
EXTENDS Integers, Sequences, FiniteSets, TLC

VARIABLES
    pc,               \* position of the call: construct, validate, header, ...
    args,             \* keyword arguments given to EdifactConfig(...)
    config,           \* the constructed EdifactConfig
    data,             \* the caller's order record
    validated_data,   \* validate_order_data's result
    segments,         \* generate_edifact_orders: segments
    total_amount,     \* generate_edifact_orders: total_amount
    idx,              \* position of the running party / item loop
    error,            \* the exception that ended the call ("" while none)
    flat_segments,    \* generate_edifact_orders: flat_segments
    edifact_message,  \* the returned string
    value,            \* escape_edifact: its argument
    escaped,          \* escape_edifact: its result
    details,          \* the details of validate_order_data's exception
    heap,             \* the dicts and lists in memory, by identity
    data_ref,         \* the identity of the caller's order record
    copy_ref,         \* the identity of validate_order_data's data_copy
    converted_items   \* validate_order_data: converted_items

vars == <<pc, args, config, data, validated_data, segments, total_amount, idx,
          error, flat_segments, edifact_message, value, escaped, details,
          heap, data_ref, copy_ref, converted_items>>

\* The variables of the memory-level view of validate_order_data
memory == <<heap, data_ref, copy_ref, converted_items>>

(***************************************************************************)
(* Text                                                                    *)
(***************************************************************************)

\* CONTROL_CHAR_REGEX: the characters of [\x00-\x1F\x7F] a TLA+ string can hold.
ControlChars == {"\t", "\n", "\r", "\f"}

ESCAPE_CHARS == <<"'", "+", ":", "*">>

CharAt(s, i) == SubSeq(s, i, i)

Rest(s) == SubSeq(s, 2, Len(s))

\* CONTROL_CHAR_REGEX.sub('', s), character by character (halving s keeps
\* the evaluation shallow on long strings)
RECURSIVE StripControl(_)
StripControl(s) ==
    IF Len(s) = 0 THEN ""
    ELSE IF Len(s) = 1 THEN (IF s \in ControlChars THEN "" ELSE s)
    ELSE LET h == Len(s) \div 2
         IN  StripControl(SubSeq(s, 1, h)) \o StripControl(SubSeq(s, h + 1, Len(s)))

\* str.replace(old, new) for a one-character old, character by character
RECURSIVE Replace(_, _, _)
Replace(s, old, new) ==
    IF Len(s) = 0 THEN ""
    ELSE IF Len(s) = 1 THEN (IF s = old THEN new ELSE s)
    ELSE LET h == Len(s) \div 2
         IN  Replace(SubSeq(s, 1, h), old, new)
             \o Replace(SubSeq(s, h + 1, Len(s)), old, new)

\* for char in ESCAPE_CHARS: s = s.replace(char, "?" + char), from the k-th on
RECURSIVE EscapeFrom(_, _)
EscapeFrom(s, k) ==
    IF k > Len(ESCAPE_CHARS) THEN s
    ELSE EscapeFrom(Replace(s, ESCAPE_CHARS[k], "?" \o ESCAPE_CHARS[k]), k + 1)

\* A slip in the order of the replacements: the release character doubled last.
EscapeReleaseLast(s) == Replace(EscapeFrom(StripControl(s), 1), "?", "??")

\* SegmentGenerator.escape_edifact
escape_edifact(s) == EscapeFrom(Replace(StripControl(s), "?", "??"), 1)

\* s[:n]
Truncate(s, n) == IF Len(s) > n THEN SubSeq(s, 1, n) ELSE s

\* s.startswith(prefix)
StartsWith(s, prefix) ==
    Len(s) >= Len(prefix) /\ SubSeq(s, 1, Len(prefix)) = prefix

\* sep.join(list)
RECURSIVE Join(_, _)
Join(sep, list) ==
    IF Len(list) = 0 THEN ""
    ELSE IF Len(list) = 1 THEN list[1]
    ELSE list[1] \o sep \o Join(sep, Tail(list))

\* f"{n}" of an int
IntStr(n) == IF n < 0 THEN "-" \o ToString(0 - n) ELSE ToString(n)

(***************************************************************************)
(* Decimal                                                                 *)
(***************************************************************************)

Digits == {"0", "1", "2", "3", "4", "5", "6", "7", "8", "9"}

DigitVal(c) ==
    CASE c = "0" -> 0 [] c = "1" -> 1 [] c = "2" -> 2 [] c = "3" -> 3
      [] c = "4" -> 4 [] c = "5" -> 5 [] c = "6" -> 6 [] c = "7" -> 7
      [] c = "8" -> 8 [] c = "9" -> 9

AllDigits(s) == \A i \in 1..Len(s) : CharAt(s, i) \in Digits

RECURSIVE DigitsVal(_)
DigitsVal(s) ==
    IF Len(s) = 0 THEN 0
    ELSE 10 * DigitsVal(SubSeq(s, 1, Len(s) - 1)) + DigitVal(CharAt(s, Len(s)))

RECURSIVE Pow10(_)
Pow10(k) == IF k <= 0 THEN 1 ELSE 10 * Pow10(k - 1)

\* The position of the first "." of s, or 0.
DotAt(s) ==
    IF \E i \in 1..Len(s) : CharAt(s, i) = "."
    THEN CHOOSE i \in 1..Len(s) :
            CharAt(s, i) = "." /\ \A j \in 1..(i - 1) : CharAt(s, j) /= "."
    ELSE 0

\* Decimal(s) for the plain notation [sign] digits [. digits]: ok is FALSE
\* where the constructor raises decimal.InvalidOperation.
ParseDecimal(s) ==
    LET signed == Len(s) > 0 /\ CharAt(s, 1) \in {"-", "+"}
        body   == IF signed THEN Rest(s) ELSE s
        dot    == DotAt(body)
        ip     == IF dot = 0 THEN body ELSE SubSeq(body, 1, dot - 1)
        fp     == IF dot = 0 THEN "" ELSE SubSeq(body, dot + 1, Len(body))
    IN  IF AllDigits(ip) /\ AllDigits(fp) /\ Len(ip) + Len(fp) > 0
        THEN [ok |-> TRUE, neg |-> signed /\ CharAt(s, 1) = "-",
              coef |-> DigitsVal(ip \o fp), exp |-> Len(fp)]
        ELSE [ok |-> FALSE, neg |-> FALSE, coef |-> 0, exp |-> 0]

Dec(neg, coef, exp) == [neg |-> neg, coef |-> coef, exp |-> exp]

\* Decimal(int)
DecOfInt(n) == Dec(n < 0, IF n < 0 THEN 0 - n ELSE n, 0)

\* The value of d in units of 10^-e, for e >= d.exp.
Scaled(d, e) == (IF d.neg THEN 0 - 1 ELSE 1) * d.coef * Pow10(e - d.exp)

Max(a, b) == IF a >= b THEN a ELSE b

\* Decimal.__eq__: numeric equality
DecEq(a, b) == Scaled(a, Max(a.exp, b.exp)) = Scaled(b, Max(a.exp, b.exp))

\* A rounding slip: quantize that drops the digits beyond the precision.
QuantizeTruncating(d, places) ==
    IF d.exp <= places THEN Dec(d.neg, d.coef * Pow10(places - d.exp), places)
    ELSE Dec(d.neg, d.coef \div Pow10(d.exp - places), places)

\* d.quantize(Decimal(10) ** -places, rounding=ROUND_HALF_UP)
Quantize(d, places) ==
    IF d.exp <= places THEN Dec(d.neg, d.coef * Pow10(places - d.exp), places)
    ELSE LET unit == Pow10(d.exp - places)
             q    == d.coef \div unit
             r    == d.coef % unit
         IN  Dec(d.neg, IF 2 * r >= unit THEN q + 1 ELSE q, places)

\* Decimal.__mul__
DecMul(a, b) == Dec(a.neg /= b.neg, a.coef * b.coef, a.exp + b.exp)

\* Decimal.__add__
DecAdd(a, b) ==
    LET e == Max(a.exp, b.exp)
        v == Scaled(a, e) + Scaled(b, e)
    IN  Dec(IF v = 0 THEN a.neg /\ b.neg ELSE v < 0,
            IF v < 0 THEN 0 - v ELSE v, e)

\* d / Decimal("100")
DecDiv100(d) == Dec(d.neg, d.coef, d.exp + 2)

\* "0" * n
RECURSIVE Zeros(_)
Zeros(n) == IF n <= 0 THEN "" ELSE "0" \o Zeros(n - 1)

\* str(Decimal) of a quantized value (no exponent notation arises)
DecStr(d) ==
    LET unit == Pow10(d.exp)
        frac == ToString(d.coef % unit)
    IN  (IF d.neg THEN "-" ELSE "") \o ToString(d.coef \div unit)
        \o (IF d.exp = 0 THEN "" ELSE "." \o Zeros(d.exp - Len(frac)) \o frac)

(***************************************************************************)
(* EdifactConfig                                                           *)
(***************************************************************************)

UNA_SEGMENT == "UNA:+.? '"
ORDERS_MSG_TYPE == "ORDERS"
DATE_FORMAT == "102"

\* d.get(k, default)
Get(d, k, default) == IF k \in DOMAIN d THEN d[k] ELSE default

\* The dataclass fields, each from its keyword argument or its default.
\* allowed_qualifiers is left out here: its default is None.
ConfigFields(a) ==
    [una_segment        |-> Get(a, "una_segment", UNA_SEGMENT),
     message_type       |-> Get(a, "message_type", ORDERS_MSG_TYPE),
     date_format        |-> Get(a, "date_format", DATE_FORMAT),
     version            |-> Get(a, "version", "D"),
     release            |-> Get(a, "release", "96A"),
     controlling_agency |-> Get(a, "controlling_agency", "UN"),
     decimal_rounding   |-> Get(a, "decimal_rounding", "0.01"),
     line_ending        |-> Get(a, "line_ending", "\n"),
     include_una        |-> Get(a, "include_una", TRUE),
     sender_id          |-> Get(a, "sender_id", "SENDER"),
     receiver_id        |-> Get(a, "receiver_id", "RECEIVER"),
     max_segment_length |-> Get(a, "max_segment_length", 2000),
     max_field_length   |-> Get(a, "max_field_length", 70)]

\* if self.allowed_qualifiers is None: self.allowed_qualifiers = [...]
DefaultQualifiers(a) ==
    Get(a, "allowed_qualifiers", <<"BY", "SU", "DP", "IV", "CB">>)

\* EdifactConfig.__post_init__: the exception it raises, "" when none.
PostInit(a) ==
    LET q == DefaultQualifiers(a)
    IN  IF ~(\A i \in 1..Len(q) : Len(q[i]) = 2) THEN "ValueError"
        ELSE IF ConfigFields(a).max_segment_length < 10 THEN "ValueError"
        ELSE ""

\* The constructed instance.
EdifactConfig(a) ==
    ConfigFields(a) @@ [allowed_qualifiers |-> DefaultQualifiers(a)]

(***************************************************************************)
(* SegmentGenerator                                                        *)
(***************************************************************************)

\* What a builder yields: a segment, or the code of the
\* EdifactGenerationError it raises.
Ok(seg) == [ok |-> TRUE, seg |-> seg, code |-> ""]
Raise(code) == [ok |-> FALSE, seg |-> "", code |-> code]

\* SegmentGenerator.validate_segment_length, followed by "return segment"
validate_segment_length(segment, cfg) ==
    IF Len(segment) > cfg.max_segment_length THEN Raise("SEGMENT_001")
    ELSE Ok(segment)

\* The exponent of Decimal(config.decimal_rounding), which quantize adopts.
Places(cfg) == ParseDecimal(cfg.decimal_rounding).exp

\* A precision check that lets every value through.
NoPrecisionCheck(d, cfg) == FALSE

\* SegmentGenerator.validate_decimal_precision: TRUE when it raises VALID_009.
validate_decimal_precision(d, cfg) == ~DecEq(d, Quantize(d, Places(cfg)))

unb(cfg, message_ref, timestamp) ==
    validate_segment_length(
        "UNB+UNOA:2+" \o escape_edifact(cfg.sender_id) \o "+"
        \o escape_edifact(cfg.receiver_id) \o "+" \o timestamp \o "+"
        \o escape_edifact(message_ref) \o "'", cfg)

una(cfg) == Ok(cfg.una_segment)

unz(message_count, message_ref, cfg) ==
    validate_segment_length(
        "UNZ+" \o IntStr(message_count) \o "+" \o escape_edifact(message_ref)
        \o "'", cfg)

unh(message_ref, cfg) ==
    validate_segment_length(
        "UNH+" \o escape_edifact(message_ref) \o "+" \o cfg.message_type \o ":"
        \o cfg.version \o ":" \o cfg.release \o ":" \o cfg.controlling_agency
        \o "'", cfg)

bgm(order_number, document_type, cfg) ==
    validate_segment_length(
        "BGM+" \o document_type \o "+" \o escape_edifact(order_number) \o "+9'",
        cfg)

dtm(qualifier, date, date_format, cfg) ==
    validate_segment_length(
        "DTM+" \o qualifier \o ":" \o escape_edifact(date) \o ":" \o date_format
        \o "'", cfg)

\* name is "" when the party has none (party.get("name") is None)
nad(qualifier, party_id, name, cfg) ==
    LET base == "NAD+" \o escape_edifact(qualifier) \o "+"
                \o escape_edifact(party_id) \o "::91"
    IN  validate_segment_length(
            IF name /= ""
            THEN base \o "++"
                 \o escape_edifact(Truncate(name, cfg.max_field_length)) \o "'"
            ELSE base \o "'", cfg)

com(contact, contact_type, cfg) ==
    validate_segment_length(
        "COM+" \o escape_edifact(contact) \o ":" \o escape_edifact(contact_type)
        \o "'", cfg)

lin(line_num, product_code, cfg) ==
    validate_segment_length(
        "LIN+" \o IntStr(line_num) \o "++" \o escape_edifact(product_code)
        \o ":EN'", cfg)

imd(description, cfg) ==
    validate_segment_length(
        "IMD+F++:::"
        \o escape_edifact(Truncate(description, cfg.max_field_length)) \o "'",
        cfg)

qty(quantity, unit, cfg) ==
    validate_segment_length(
        "QTY+21:" \o IntStr(quantity) \o ":" \o escape_edifact(unit) \o "'", cfg)

pri(price, cfg, unit) ==
    IF validate_decimal_precision(price, cfg) THEN Raise("VALID_009")
    ELSE validate_segment_length(
            "PRI+AAA:" \o DecStr(Quantize(price, Places(cfg))) \o ":"
            \o escape_edifact(unit) \o "'", cfg)

moa(qualifier, amount, cfg) ==
    IF validate_decimal_precision(amount, cfg) THEN Raise("VALID_009")
    ELSE validate_segment_length(
            "MOA+" \o escape_edifact(qualifier) \o ":"
            \o DecStr(Quantize(amount, Places(cfg))) \o "'", cfg)

tax(rate, tax_type, cfg) ==
    IF validate_decimal_precision(rate, cfg) THEN Raise("VALID_009")
    ELSE validate_segment_length(
            "TAX+7+" \o escape_edifact(tax_type) \o "+++:::"
            \o DecStr(Quantize(rate, Places(cfg))) \o "'", cfg)

loc(qualifier, location, cfg) ==
    validate_segment_length(
        "LOC+" \o escape_edifact(qualifier) \o "+" \o escape_edifact(location)
        \o ":92'", cfg)

pai(terms, cfg) ==
    validate_segment_length("PAI+" \o escape_edifact(terms) \o ":3'", cfg)

tod(incoterms, cfg) ==
    validate_segment_length("TOD+5++" \o escape_edifact(incoterms) \o "'", cfg)

unt(segment_count, message_ref, cfg) ==
    validate_segment_length(
        "UNT+" \o IntStr(segment_count) \o "+" \o escape_edifact(message_ref)
        \o "'", cfg)

ftx(text, qualifier, sequence, cfg) ==
    validate_segment_length(
        "FTX+" \o qualifier \o "+" \o IntStr(sequence) \o "+++"
        \o escape_edifact(Truncate(text, cfg.max_field_length)) \o "'", cfg)

\* The inline CUX segment of generate_edifact_orders
cux(currency, cfg) ==
    validate_segment_length("CUX+2:" \o escape_edifact(currency) \o ":9'", cfg)

(***************************************************************************)
(* Dates                                                                   *)
(***************************************************************************)

\* DATE_FORMATS, each pattern as its sequence of strptime directives
DATE_FORMATS ==
    [f \in {"102", "203", "101", "204"} |->
        CASE f = "102" -> <<"Y", "m", "d">>
          [] f = "203" -> <<"Y", "m", "d", "H", "M">>
          [] f = "101" -> <<"y", "m", "d">>
          [] f = "204" -> <<"Y", "m", "d", "H", "M", "S">>]

\* The alternatives of a directive's regular expression, as the lengths of
\* the token each consumes, in the order the regular expression tries them.
TokenLengths(dir) ==
    CASE dir = "Y" -> <<4>>
      [] dir = "y" -> <<2>>
      [] dir = "d" -> <<2, 1, 2>>
      [] OTHER     -> <<2, 1>>

\* Whether token t matches alternative k of the directive.
TokenMatches(dir, k, t) ==
    LET n  == IF AllDigits(t) THEN DigitsVal(t) ELSE 0
        c1 == CharAt(t, 1)
    IN  CASE dir \in {"Y", "y"} -> AllDigits(t)
          [] dir = "m" -> AllDigits(t) /\
                          IF k = 1 THEN n \in 1..12 /\ (c1 = "1" => n >= 10)
                          ELSE n \in 1..9
          [] dir = "d" -> IF k = 1 THEN AllDigits(t) /\ n \in 1..31
                                        /\ (c1 \in {"1", "2", "3"} => n >= 10)
                          ELSE IF k = 2 THEN AllDigits(t) /\ n \in 1..9
                          ELSE c1 = " " /\ CharAt(t, 2) \in (Digits \ {"0"})
          [] dir = "H" -> AllDigits(t) /\ n \in 0..23
          [] dir = "M" -> AllDigits(t) /\ n \in 0..59
          [] dir = "S" -> AllDigits(t) /\ n \in 0..61

\* The number a matched token stands for.
TokenValue(t) == IF AllDigits(t) THEN DigitsVal(t) ELSE DigitsVal(Rest(t))

\* format_regex.match(data_string): the first way, in the regular
\* expression's order, of matching the directives dirs[k..] from position
\* pos; end is the position after the match.
RECURSIVE RegexMatch(_, _, _, _, _)
RegexMatch(s, pos, dirs, k, alt) ==
    IF k > Len(dirs) THEN [ok |-> TRUE, end |-> pos, vals |-> <<>>]
    ELSE IF alt > Len(TokenLengths(dirs[k]))
    THEN [ok |-> FALSE, end |-> pos, vals |-> <<>>]
    ELSE LET n    == TokenLengths(dirs[k])[alt]
             fits == pos + n - 1 <= Len(s)
             t    == IF fits THEN SubSeq(s, pos, pos + n - 1) ELSE ""
             rest == RegexMatch(s, pos + n, dirs, k + 1, 1)
         IN  IF fits /\ TokenMatches(dirs[k], alt, t) /\ rest.ok
             THEN [ok |-> TRUE, end |-> rest.end,
                   vals |-> <<TokenValue(t)>> \o rest.vals]
             ELSE RegexMatch(s, pos, dirs, k, alt + 1)

IsLeap(y) == y % 4 = 0 /\ (y % 100 /= 0 \/ y % 400 = 0)

DaysInMonth(y, m) ==
    IF m = 2 THEN (IF IsLeap(y) THEN 29 ELSE 28)
    ELSE IF m \in {4, 6, 9, 11} THEN 30 ELSE 31

\* datetime.strptime(date_str, fmt) returns (TRUE) or raises ValueError
Strptime(date_str, dirs) ==
    LET m == RegexMatch(date_str, 1, dirs, 1, 1)
    IN  /\ m.ok
        /\ m.end = Len(date_str) + 1
        /\ LET year == IF dirs[1] = "y"
                       THEN (IF m.vals[1] <= 68 THEN 2000 ELSE 1900) + m.vals[1]
                       ELSE m.vals[1]
           IN  /\ year >= 1
               /\ m.vals[3] <= DaysInMonth(year, m.vals[2])
               /\ (Len(dirs) >= 6 => m.vals[6] <= 59)

validate_date(date_str, date_format) ==
    IF date_format \notin DOMAIN DATE_FORMATS THEN FALSE
    ELSE Strptime(date_str, DATE_FORMATS[date_format])

(***************************************************************************)
(* Validation                                                              *)
(*                                                                         *)
(* A top-level value of the order record is Str(s), Num(s) (a number, s    *)
(* its str()) or None; "parties" and "items" are lists of dicts.  In a     *)
(* party every value is a str.  In an item product_code, description and   *)
(* unit are strs, price is given by its str(), and quantity is IntVal(n)   *)
(* or TextVal(s).                                                          *)
(***************************************************************************)

Str(s) == [t |-> "str", s |-> s]
Num(s) == [t |-> "num", s |-> s]
None == [t |-> "none"]
IntVal(n) == [k |-> "int", n |-> n]
TextVal(s) == [k |-> "str", s |-> s]

SanitizeParty(p) == [key \in DOMAIN p |-> StripControl(p[key])]

SanitizeItem(item) ==
    [key \in DOMAIN item |->
        IF key = "quantity"
        THEN (IF item[key].k = "str" THEN TextVal(StripControl(item[key].s))
              ELSE item[key])
        ELSE StripControl(item[key])]

\* sanitize_input
sanitize_input(d) ==
    [key \in DOMAIN d |->
        IF key = "parties"
        THEN [i \in 1..Len(d[key]) |-> SanitizeParty(d[key][i])]
        ELSE IF key = "items"
        THEN [i \in 1..Len(d[key]) |-> SanitizeItem(d[key][i])]
        ELSE IF d[key].t = "str" THEN Str(StripControl(d[key].s))
        ELSE d[key]]

\* ORDER_SCHEMA["required"]
SchemaRequired ==
    {"message_ref", "order_number", "order_date", "parties", "items"}

\* The properties of ORDER_SCHEMA of type string
SchemaStrings ==
    {"message_ref", "order_number", "order_date", "delivery_date", "currency",
     "delivery_location", "payment_terms", "special_instructions", "incoterms"}

\* The maxLength of the properties of ORDER_SCHEMA that have one
SchemaMaxLength ==
    [message_ref |-> 14, order_number |-> 35, currency |-> 3,
     delivery_location |-> 35, payment_terms |-> 35, incoterms |-> 3]

\* validate_with_schema: TRUE when validate(instance, ORDER_SCHEMA) accepts
validate_with_schema(d) ==
    /\ SchemaRequired \subseteq DOMAIN d
    /\ \A key \in SchemaStrings \cap DOMAIN d :
          /\ d[key].t = "str"
          /\ key \in DOMAIN SchemaMaxLength =>
                Len(d[key].s) <= SchemaMaxLength[key]
    /\ "tax_rate" \in DOMAIN d => d.tax_rate.t = "num"

\* int(s) of a str: ok is FALSE where it raises ValueError
ParseInt(s) ==
    LET signed == Len(s) > 0 /\ CharAt(s, 1) \in {"-", "+"}
        body   == IF signed THEN Rest(s) ELSE s
    IN  IF Len(body) > 0 /\ AllDigits(body)
        THEN [ok |-> TRUE,
              n |-> IF signed /\ CharAt(s, 1) = "-" THEN 0 - DigitsVal(body)
                    ELSE DigitsVal(body)]
        ELSE [ok |-> FALSE, n |-> 0]

\* One pass of the item loop of validate_order_data: the converted item, or
\* the exception raised (err), as it leaves the try block.
ConvertItem(item) ==
    LET q == IF item.quantity.k = "int" THEN [ok |-> TRUE, n |-> item.quantity.n]
             ELSE ParseInt(item.quantity.s)
        p == ParseDecimal(item.price)
        none == [product_code |-> "", description |-> "", quantity |-> 0,
                 price |-> Dec(FALSE, 0, 0), unit |-> ""]
    IN  IF Len(Get(item, "product_code", "")) > 35
        THEN [err |-> "VALID_007", item |-> none]
        ELSE IF "product_code" \notin DOMAIN item
        THEN [err |-> "VALID_005", item |-> none]
        ELSE IF "quantity" \notin DOMAIN item \/ ~q.ok
        THEN [err |-> "VALID_005", item |-> none]
        ELSE IF "price" \notin DOMAIN item
        THEN [err |-> "VALID_005", item |-> none]
        ELSE IF ~p.ok
        THEN [err |-> "decimal.InvalidOperation", item |-> none]
        ELSE [err |-> "",
              item |-> [product_code |-> item.product_code,
                        description  |-> Get(item, "description", ""),
                        quantity     |-> q.n,
                        price        |-> Dec(p.neg, p.coef, p.exp),
                        unit         |-> Get(item, "unit", "EA")]]

\* The index of the first element of seq for which Bad holds, or 0.
FirstIndex(seq, Bad(_)) ==
    IF \E i \in 1..Len(seq) : Bad(seq[i])
    THEN CHOOSE i \in 1..Len(seq) :
            Bad(seq[i]) /\ \A j \in 1..(i - 1) : ~Bad(seq[j])
    ELSE 0

\* A party loop that checks the keys only.
CheckPartyKeysOnly(p, cfg) ==
    IF "qualifier" \notin DOMAIN p \/ "id" \notin DOMAIN p THEN "VALID_006"
    ELSE ""

\* The party loop of validate_order_data for one party: the code raised.
CheckParty(p, cfg) ==
    IF "qualifier" \notin DOMAIN p \/ "id" \notin DOMAIN p THEN "VALID_006"
    ELSE IF \A i \in 1..Len(cfg.allowed_qualifiers) :
                cfg.allowed_qualifiers[i] /= p.qualifier
    THEN "VALID_008"
    ELSE ""

\* validate_order_data: err is the code of the EdifactGenerationError (or
\* the name of the other exception) raised, "" when it returns; data is the
\* validated copy.
validate_order_data(d, cfg) ==
    LET data_copy == sanitize_input(d)
        BadItem(item) == ConvertItem(item).err /= ""
        BadParty(p) == CheckParty(p, cfg) /= ""
        first_item == FirstIndex(data_copy.items, BadItem)
        first_party == FirstIndex(data_copy.parties, BadParty)
        fail(code, det) == [err |-> code, data |-> <<>>, details |-> det]
    IN  IF ~validate_with_schema(data_copy) THEN fail("SCHEMA_001", <<>>)
        ELSE IF \E f \in SchemaRequired : f \notin DOMAIN data_copy
        THEN fail("VALID_001",
                  [missing_fields |-> SchemaRequired \ DOMAIN data_copy])
        ELSE IF Len(data_copy.items) = 0 THEN fail("VALID_002", <<>>)
        ELSE IF ~validate_date(data_copy.order_date.s, cfg.date_format)
        THEN fail("VALID_003", [date |-> data_copy.order_date.s,
                                format |-> cfg.date_format])
        ELSE IF /\ "delivery_date" \in DOMAIN data_copy
                /\ data_copy.delivery_date.s /= ""
                /\ ~validate_date(data_copy.delivery_date.s, cfg.date_format)
        THEN fail("VALID_004", [date |-> data_copy.delivery_date.s,
                                format |-> cfg.date_format])
        ELSE IF first_item /= 0
        THEN fail(ConvertItem(data_copy.items[first_item]).err,
                  IF ConvertItem(data_copy.items[first_item]).err = "VALID_007"
                  THEN [item_index |-> first_item - 1,
                        field |-> "product_code",
                        length |-> Len(data_copy.items[first_item].product_code)]
                  ELSE <<>>)
        ELSE IF "tax_rate" \in DOMAIN data_copy
                /\ ~ParseDecimal(data_copy.tax_rate.s).ok
        THEN fail("decimal.InvalidOperation", <<>>)
        ELSE IF first_party /= 0
        THEN fail(CheckParty(data_copy.parties[first_party], cfg),
                  IF CheckParty(data_copy.parties[first_party], cfg) = "VALID_006"
                  THEN [party_index |-> first_party - 1]
                  ELSE [party_index |-> first_party - 1,
                        qualifier |-> data_copy.parties[first_party].qualifier,
                        allowed |-> cfg.allowed_qualifiers])
        ELSE [err |-> "", details |-> <<>>,
              data |->
                [key \in DOMAIN data_copy |->
                    IF key = "items"
                    THEN [i \in 1..Len(data_copy.items) |->
                            ConvertItem(data_copy.items[i]).item]
                    ELSE IF key = "tax_rate"
                    THEN LET r == ParseDecimal(data_copy.tax_rate.s)
                         IN  [t |-> "dec", d |-> Dec(r.neg, r.coef, r.exp)]
                    ELSE data_copy[key]]]

(***************************************************************************)
(* generate_edifact_orders                                                 *)
(***************************************************************************)

\* validated_data.get(key) is truthy
Truthy(d, key) == key \in DOMAIN d /\ d[key].s /= ""

NotOk(r) == ~r.ok

\* Runs the statements "segments.append(x)" / "segments.extend([x, y, ...])"
\* in order; each group is the list one statement adds, built in full before
\* anything of it is added.  err is the exception that stopped the run.
RECURSIVE RunGroups(_, _)
RunGroups(segs, groups) ==
    IF Len(groups) = 0 THEN [segs |-> segs, err |-> ""]
    ELSE LET g   == Head(groups)
             bad == FirstIndex(g, NotOk)
         IN  IF bad /= 0 THEN [segs |-> segs, err |-> g[bad].code]
             ELSE RunGroups(segs \o [i \in 1..Len(g) |-> g[i].seg],
                            Tail(groups))

\* The groups a condition guards
When(cond, group) == IF cond THEN group ELSE <<>>

\* Lines 422-440: UNA, UNB, UNH, BGM, DTM, [DTM], [CUX]
HeaderGroups(vd, cfg, timestamp) ==
    << When(cfg.include_una, <<una(cfg)>>),
       <<unb(cfg, vd.message_ref.s, timestamp)>>,
       <<unh(vd.message_ref.s, cfg),
         bgm(vd.order_number.s, "220", cfg),
         dtm("137", vd.order_date.s, cfg.date_format, cfg)>>,
       When(Truthy(vd, "delivery_date"),
            <<dtm("2", vd.delivery_date.s, cfg.date_format, cfg)>>),
       When(Truthy(vd, "currency"), <<cux(vd.currency.s, cfg)>>) >>

\* The party loop with the two COM segments in the other order.
PartyGroupsContactFirst(party, cfg) ==
    << <<nad(party.qualifier, party.id, Get(party, "name", ""), cfg)>>,
       When(Get(party, "contact", "") /= "", <<com(party.contact, "TE", cfg)>>),
       When(Get(party, "address", "") /= "", <<com(party.address, "AD", cfg)>>) >>

\* Lines 442-452: one pass of the party loop
PartyGroups(party, cfg) ==
    << <<nad(party.qualifier, party.id, Get(party, "name", ""), cfg)>>,
       When(Get(party, "address", "") /= "", <<com(party.address, "AD", cfg)>>),
       When(Get(party, "contact", "") /= "", <<com(party.contact, "TE", cfg)>>) >>

\* item.get("unit", "EA") or "EA"
UnitOf(item) == IF item.unit = "" THEN "EA" ELSE item.unit

\* Line 459: line_total
LineTotal(item, cfg) ==
    Quantize(DecMul(item.price, DecOfInt(item.quantity)), Places(cfg))

\* Lines 461-466: one pass of the item loop
ItemGroups(n, item, cfg) ==
    << <<lin(n, item.product_code, cfg),
         imd(item.description, cfg),
         qty(item.quantity, UnitOf(item), cfg),
         pri(item.price, cfg, UnitOf(item))>> >>

\* Line 471: tax_amount
TaxAmount(total, rate, cfg) ==
    Quantize(DecDiv100(DecMul(total, rate)), Places(cfg))

\* Chunking that drops the short last chunk.
ChunksWhole(text, m) ==
    [i \in 1..(Len(text) \div m) |-> SubSeq(text, (i - 1) * m + 1, i * m)]

\* Line 489: [instructions[i:i+m] for i in range(0, len(instructions), m)],
\* for m >= 1
Chunks(text, m) ==
    [i \in 1..((Len(text) + m - 1) \div m) |->
        SubSeq(text, (i - 1) * m + 1,
               IF i * m < Len(text) THEN i * m ELSE Len(text))]

\* Lines 478-493: [LOC], [PAI], [TOD], [FTX ...], MOA(79)
TrailerGroups(vd, total, cfg) ==
    << When(Truthy(vd, "delivery_location"),
            <<loc("11", vd.delivery_location.s, cfg)>>),
       When(Truthy(vd, "payment_terms"), <<pai(vd.payment_terms.s, cfg)>>),
       When(Truthy(vd, "incoterms"), <<tod(vd.incoterms.s, cfg)>>) >>
    \o (IF Truthy(vd, "special_instructions")
        THEN LET chunks == Chunks(vd.special_instructions.s,
                                  cfg.max_field_length)
             IN  [i \in 1..Len(chunks) |-> <<ftx(chunks[i], "AAI", i, cfg)>>]
        ELSE <<>>)
    \o << <<moa("79", total, cfg)>> >>

IsUNH(seg) == StartsWith(seg, "UNH+")

\* A count that forgets the UNT segment itself.
SegmentCountWithoutUNT(flat) == Len(flat) - (FirstIndex(flat, IsUNH) - 1)

\* Line 511: segment_count = len(flat_segments) - unh_index + 1
SegmentCount(flat) == Len(flat) - (FirstIndex(flat, IsUNH) - 1) + 1

(***************************************************************************)
(* The calls                                                               *)
(***************************************************************************)

\* datetime.now().strftime("%y%m%d%H%M"): the clock readings considered
Timestamps == {"2505091200", "2611022120"}

Unset == <<>>

Fail(code) ==
    /\ pc' = "failed"
    /\ error' = code

\* EdifactConfig(**args)
Construct ==
    /\ pc = "construct"
    /\ IF PostInit(args) /= ""
       THEN /\ pc' = "config_error"
            /\ error' = PostInit(args)
            /\ UNCHANGED config
       ELSE /\ pc' = "validate"
            /\ config' = EdifactConfig(args)
            /\ UNCHANGED error
    /\ UNCHANGED <<args, data, validated_data, segments, total_amount, idx,
                   flat_segments, edifact_message, value, escaped>>
    /\ UNCHANGED <<details, memory>>

\* Lines 414-422: validate_order_data, then segments = []
Validate ==
    /\ pc = "validate"
    /\ LET r == validate_order_data(data, config)
       IN  IF r.err /= ""
           THEN Fail(r.err) /\ UNCHANGED <<validated_data, segments>>
           ELSE /\ pc' = "header"
                /\ validated_data' = r.data
                /\ segments' = <<>>
                /\ UNCHANGED error
    /\ UNCHANGED <<args, config, data, total_amount, idx, flat_segments,
                   edifact_message, value, escaped>>
    /\ details' = validate_order_data(data, config).details
    /\ UNCHANGED memory

\* Lines 424-440
BuildHeader ==
    /\ pc = "header"
    /\ \E timestamp \in Timestamps :
          LET r == RunGroups(segments,
                             HeaderGroups(validated_data, config, timestamp))
          IN  /\ segments' = r.segs
              /\ IF r.err /= "" THEN Fail(r.err) /\ UNCHANGED idx
                 ELSE pc' = "parties" /\ idx' = 1 /\ UNCHANGED error
    /\ UNCHANGED <<args, config, data, validated_data, total_amount,
                   flat_segments, edifact_message, value, escaped>>
    /\ UNCHANGED <<details, memory>>

\* Lines 442-452: one pass of "for party in validated_data['parties']"
BuildParty ==
    /\ pc = "parties"
    /\ idx <= Len(validated_data.parties)
    /\ LET r == RunGroups(segments,
                          PartyGroups(validated_data.parties[idx], config))
       IN  /\ segments' = r.segs
           /\ IF r.err /= "" THEN Fail(r.err) /\ UNCHANGED idx
              ELSE idx' = idx + 1 /\ UNCHANGED <<pc, error>>
    /\ UNCHANGED <<args, config, data, validated_data, total_amount,
                   flat_segments, edifact_message, value, escaped>>
    /\ UNCHANGED <<details, memory>>

\* Line 454: total_amount = Decimal("0.00"), entering the item loop
StartItems ==
    /\ pc = "parties"
    /\ idx > Len(validated_data.parties)
    /\ total_amount' = Dec(FALSE, 0, 2)
    /\ pc' = "items"
    /\ idx' = 1
    /\ UNCHANGED <<args, config, data, validated_data, segments, error,
                   flat_segments, edifact_message, value, escaped>>
    /\ UNCHANGED <<details, memory>>

\* Lines 455-467: one pass of "for idx, item in enumerate(items, 1)"
BuildItem ==
    /\ pc = "items"
    /\ idx <= Len(validated_data.items)
    /\ LET item == validated_data.items[idx]
           r    == RunGroups(segments, ItemGroups(idx, item, config))
       IN  /\ segments' = r.segs
           /\ IF r.err /= ""
              THEN Fail(r.err) /\ UNCHANGED <<idx, total_amount>>
              ELSE /\ total_amount' = DecAdd(total_amount, LineTotal(item, config))
                   /\ idx' = idx + 1
                   /\ UNCHANGED <<pc, error>>
    /\ UNCHANGED <<args, config, data, validated_data, flat_segments,
                   edifact_message, value, escaped>>
    /\ UNCHANGED <<details, memory>>

\* Lines 469-476: [TAX, MOA(124)]
BuildTax ==
    /\ pc = "items"
    /\ idx > Len(validated_data.items)
    /\ IF "tax_rate" \in DOMAIN validated_data
       THEN LET tax_rate   == validated_data.tax_rate.d
                tax_amount == TaxAmount(total_amount, tax_rate, config)
                r == RunGroups(segments,
                               << <<tax(tax_rate, "VAT", config),
                                    moa("124", tax_amount, config)>> >>)
            IN  /\ segments' = r.segs
                /\ IF r.err /= "" THEN Fail(r.err) /\ UNCHANGED total_amount
                   ELSE /\ total_amount' = DecAdd(total_amount, tax_amount)
                        /\ pc' = "trailer"
                        /\ UNCHANGED error
       ELSE /\ pc' = "trailer"
            /\ UNCHANGED <<segments, total_amount, error>>
    /\ UNCHANGED <<args, config, data, validated_data, idx, flat_segments,
                   edifact_message, value, escaped>>
    /\ UNCHANGED <<details, memory>>

\* Lines 478-493: [LOC], [PAI], [TOD], [FTX ...], MOA(79)
BuildTrailer ==
    /\ pc = "trailer"
    /\ IF Truthy(validated_data, "special_instructions")
          /\ config.max_field_length = 0
       THEN \* range() arg 3 must not be zero
            Fail("ValueError") /\ UNCHANGED segments
       ELSE LET r == RunGroups(segments,
                               TrailerGroups(validated_data, total_amount, config))
            IN  /\ segments' = r.segs
                /\ IF r.err /= "" THEN Fail(r.err)
                   ELSE pc' = "finish" /\ UNCHANGED error
    /\ UNCHANGED <<args, config, data, validated_data, total_amount, idx,
                   flat_segments, edifact_message, value, escaped>>
    /\ UNCHANGED <<details, memory>>

\* Lines 495-529, with output_file None: flatten, count, UNT, UNZ, join
Finish ==
    /\ pc = "finish"
    /\ IF FirstIndex(segments, IsUNH) = 0
       THEN /\ Fail("GEN_001")
            /\ flat_segments' = segments
            /\ UNCHANGED edifact_message
       ELSE LET r == RunGroups(segments,
                        << <<unt(SegmentCount(segments),
                                 validated_data.message_ref.s, config)>>,
                           <<unz(1, validated_data.message_ref.s, config)>> >>)
            IN  /\ flat_segments' = r.segs
                /\ IF r.err /= "" THEN Fail(r.err) /\ UNCHANGED edifact_message
                   ELSE /\ edifact_message' = Join(config.line_ending, r.segs)
                        /\ pc' = "done"
                        /\ UNCHANGED error
    /\ UNCHANGED <<args, config, data, validated_data, segments, total_amount,
                   idx, value, escaped>>
    /\ UNCHANGED <<details, memory>>

(***************************************************************************)
(* validate_order_data in memory: dicts and lists as objects with an       *)
(* identity, names as references to them                                   *)
(***************************************************************************)

\* What a dict holds under a key, or a list at a position: a reference to
\* another object, or a value that cannot be changed in place (str, int,
\* float, Decimal, None)
Ref(n) == [ref |-> n]
Cell(x) == [val |-> x]
IsRef(v) == "ref" \in DOMAIN v

\* A dict of values only (a party or an item), and a list of the n objects
\* from identity first on
Dict(kind, rec) ==
    [kind |-> kind, fields |-> [k \in DOMAIN rec |-> Cell(rec[k])]]

ListOf(first, n) ==
    [kind |-> "list", elems |-> [i \in 1..n |-> Ref(first + i - 1)]]

\* The order record built as new objects on top of h: its party and item
\* dicts, its two lists, and the record itself (ref)
Store(h, order) ==
    LET has(key) == key \in DOMAIN order
        ps    == IF has("parties") THEN order.parties ELSE <<>>
        its   == IF has("items") THEN order.items ELSE <<>>
        b     == Len(h)
        plist == b + Len(ps) + Len(its) + 1
        ilist == plist + (IF has("parties") THEN 1 ELSE 0)
        root  == ilist + (IF has("items") THEN 1 ELSE 0)
        top   == [kind |-> "order",
                  fields |->
                    [k \in DOMAIN order |->
                        IF k = "parties" THEN Ref(plist)
                        ELSE IF k = "items" THEN Ref(ilist)
                        ELSE Cell(order[k])]]
    IN  [heap |->
            h \o [i \in 1..Len(ps) |-> Dict("party", ps[i])]
              \o [i \in 1..Len(its) |-> Dict("item", its[i])]
              \o (IF has("parties") THEN <<ListOf(b + 1, Len(ps))>> ELSE <<>>)
              \o (IF has("items")
                  THEN <<ListOf(b + Len(ps) + 1, Len(its))>> ELSE <<>>)
              \o <<top>>,
         ref |-> root]

\* The values a party or item dict holds
Unwrap(o) == [k \in DOMAIN o.fields |-> o.fields[k].val]

\* The order record that the object r of h holds, read through its lists
Load(h, r) ==
    [k \in DOMAIN h[r].fields |->
        IF IsRef(h[r].fields[k])
        THEN LET l == h[h[r].fields[k].ref]
             IN  [i \in 1..Len(l.elems) |-> Unwrap(h[l.elems[i].ref])]
        ELSE h[r].fields[k].val]

\* The objects an object refers to
Refs(o) ==
    IF o.kind = "list"
    THEN {o.elems[i].ref : i \in {j \in 1..Len(o.elems) : IsRef(o.elems[j])}}
    ELSE {o.fields[k].ref : k \in {j \in DOMAIN o.fields : IsRef(o.fields[j])}}

\* The objects that can be reached from those of S
RECURSIVE ReachFrom(_, _)
ReachFrom(h, S) ==
    LET more == S \cup UNION {Refs(h[i]) : i \in S}
    IN  IF more = S THEN S ELSE ReachFrom(h, more)

Reach(h, r) == ReachFrom(h, {r})

\* copy.deepcopy(r): every object reachable from r is copied once, and the
\* copies refer to one another as the originals do
deepcopy(h, r) ==
    LET R        == Reach(h, r)
        rank(i)  == Cardinality({j \in R : j <= i})
        new(i)   == Len(h) + rank(i)
        old(n)   == CHOOSE i \in R : rank(i) = n
        moved(v) == IF IsRef(v) THEN Ref(new(v.ref)) ELSE v
        copy(o)  ==
            IF o.kind = "list"
            THEN [kind |-> "list",
                  elems |-> [i \in 1..Len(o.elems) |-> moved(o.elems[i])]]
            ELSE [kind |-> o.kind,
                  fields |-> [k \in DOMAIN o.fields |-> moved(o.fields[k])]]
    IN  [heap |-> h \o [n \in 1..Cardinality(R) |-> copy(h[old(n)])],
         ref |-> new(r)]

\* sanitize_input(r): a new dict for every dict and a new list for every
\* list it walks through, holding the values with control characters
\* stripped
SanitizeAt(h, r) == Store(h, sanitize_input(Load(h, r)))

\* A binding that copies nothing: data_copy is the caller's record itself.
SameRecord(h, r) == [heap |-> h, ref |-> r]

\* Line 327: sanitize_input(copy.deepcopy(data))
SanitizedCopy(h, r) ==
    LET c == deepcopy(h, r)
    IN  SanitizeAt(c.heap, c.ref)

\* Lines 329-354: the schema, required fields, items and dates of data_copy;
\* err is "" when all are passed.
ShapeGates(d, cfg) ==
    IF ~validate_with_schema(d) THEN [err |-> "SCHEMA_001", details |-> <<>>]
    ELSE IF \E f \in SchemaRequired : f \notin DOMAIN d
    THEN [err |-> "VALID_001",
          details |-> [missing_fields |-> SchemaRequired \ DOMAIN d]]
    ELSE IF Len(d.items) = 0 THEN [err |-> "VALID_002", details |-> <<>>]
    ELSE IF ~validate_date(d.order_date.s, cfg.date_format)
    THEN [err |-> "VALID_003",
          details |-> [date |-> d.order_date.s, format |-> cfg.date_format]]
    ELSE IF /\ "delivery_date" \in DOMAIN d
            /\ d.delivery_date.s /= ""
            /\ ~validate_date(d.delivery_date.s, cfg.date_format)
    THEN [err |-> "VALID_004",
          details |-> [date |-> d.delivery_date.s, format |-> cfg.date_format]]
    ELSE [err |-> "", details |-> <<>>]

\* data_copy["items"]: the references the list holds
h_items(h, r) == h[h[r].fields.items.ref].elems

\* Line 327
CopyInput ==
    /\ pc = "validate"
    /\ LET c == SanitizedCopy(heap, data_ref)
       IN  heap' = c.heap /\ copy_ref' = c.ref
    /\ pc' = "gates"
    /\ UNCHANGED <<args, config, data, validated_data, segments, total_amount,
                   idx, error, flat_segments, edifact_message, value, escaped,
                   details, data_ref, converted_items>>

\* Lines 329-356: the gates, then converted_items = []
CheckShape ==
    /\ pc = "gates"
    /\ LET r == ShapeGates(Load(heap, copy_ref), config)
       IN  IF r.err /= ""
           THEN /\ Fail(r.err)
                /\ details' = r.details
                /\ UNCHANGED <<heap, converted_items, idx>>
           ELSE /\ heap' = Append(heap, ListOf(0, 0))
                /\ converted_items' = Len(heap) + 1
                /\ idx' = 1
                /\ pc' = "convert"
                /\ UNCHANGED <<error, details>>
    /\ UNCHANGED <<args, config, data, validated_data, segments, total_amount,
                   flat_segments, edifact_message, value, escaped, data_ref,
                   copy_ref>>

\* Lines 357-374: one pass of "for idx, item in enumerate(items)"
ConvertOne ==
    /\ pc = "convert"
    /\ LET items == h_items(heap, copy_ref)
       IN  /\ idx <= Len(items)
           /\ LET r == ConvertItem(Unwrap(heap[items[idx].ref]))
              IN  IF r.err /= ""
                  THEN /\ Fail(r.err)
                       /\ details' =
                            (IF r.err = "VALID_007"
                             THEN [item_index |-> idx - 1,
                                   field |-> "product_code",
                                   length |->
                                     Len(heap[items[idx].ref].fields.product_code.val)]
                             ELSE <<>>)
                       /\ UNCHANGED <<heap, idx>>
                  ELSE /\ heap' =
                            [Append(heap, Dict("item", r.item))
                                EXCEPT ![converted_items].elems =
                                    Append(@, Ref(Len(heap) + 1))]
                       /\ idx' = idx + 1
                       /\ UNCHANGED <<pc, error, details>>
    /\ UNCHANGED <<args, config, data, validated_data, segments, total_amount,
                   flat_segments, edifact_message, value, escaped, data_ref,
                   copy_ref, converted_items>>

\* Lines 375-378: data_copy["items"] = converted_items, then tax_rate
AssignItems ==
    /\ pc = "convert"
    /\ idx > Len(h_items(heap, copy_ref))
    /\ LET assigned ==
                [heap EXCEPT ![copy_ref].fields.items = Ref(converted_items)]
           fields == heap[copy_ref].fields
           given  == "tax_rate" \in DOMAIN fields
                     /\ fields.tax_rate.val /= None
           r      == ParseDecimal(fields.tax_rate.val.s)
       IN  IF given /\ ~r.ok
           THEN /\ heap' = assigned
                /\ Fail("decimal.InvalidOperation")
           ELSE /\ heap' =
                     (IF given
                      THEN [assigned EXCEPT ![copy_ref].fields.tax_rate =
                                Cell([t |-> "dec", d |-> Dec(r.neg, r.coef, r.exp)])]
                      ELSE assigned)
                /\ pc' = "check_parties"
                /\ UNCHANGED error
    /\ UNCHANGED <<args, config, data, validated_data, segments, total_amount,
                   idx, flat_segments, edifact_message, value, escaped, details,
                   data_ref, copy_ref, converted_items>>

\* Lines 382-397: the party loop and the return; then line 422
CheckParties ==
    /\ pc = "check_parties"
    /\ LET d == Load(heap, copy_ref)
           BadParty(p) == CheckParty(p, config) /= ""
           first == FirstIndex(d.parties, BadParty)
       IN  IF first /= 0
           THEN /\ Fail(CheckParty(d.parties[first], config))
                /\ details' =
                     (IF CheckParty(d.parties[first], config) = "VALID_006"
                      THEN [party_index |-> first - 1]
                      ELSE [party_index |-> first - 1,
                            qualifier |-> d.parties[first].qualifier,
                            allowed |-> config.allowed_qualifiers])
                /\ UNCHANGED <<validated_data, segments>>
           ELSE /\ validated_data' = d
                /\ segments' = <<>>
                /\ pc' = "header"
                /\ UNCHANGED <<error, details>>
    /\ UNCHANGED <<args, config, data, total_amount, idx, flat_segments,
                   edifact_message, value, escaped, memory>>

(***************************************************************************)
(* The orders and configurations considered                                *)
(***************************************************************************)

MaxParties == 2
MaxItems == 2
MaxQualifiers == 2
MaxFieldLen == 5
MaxTextLen == 21
MaxEscapeLen == 3

\* The sequences over S of length at most n
RECURSIVE SeqsUpTo(_, _)
SeqsUpTo(S, n) ==
    IF n <= 0 THEN {<<>>}
    ELSE LET shorter == SeqsUpTo(S, n - 1)
         IN  shorter \cup {Append(q, x) : q \in shorter, x \in S}

\* The strings over the characters of S of length at most n
RECURSIVE TextsUpTo(_, _)
TextsUpTo(S, n) ==
    IF n <= 0 THEN {""}
    ELSE LET shorter == TextsUpTo(S, n - 1)
         IN  shorter \cup {t \o c : t \in shorter, c \in S}

With(d, key, val) ==
    [k \in DOMAIN d \cup {key} |-> IF k = key THEN val ELSE d[k]]

Without(d, keys) == [k \in DOMAIN d \ keys |-> d[k]]

Restrict(d, keys) == [k \in DOMAIN d \cap keys |-> d[k]]

Buyer ==
    [qualifier |-> "BY", id |-> "1234567890123", name |-> "Buyer Corp",
     contact |-> "+123456789"]
Supplier ==
    [qualifier |-> "SU", id |-> "3210987654321", address |-> "Industrial?Park",
     contact |-> "supplier@example.com"]
Depot ==
    [qualifier |-> "DP", id |-> "7\t7", name |-> "\t", address |-> "",
     contact |-> "\n"]
Unlisted == [qualifier |-> "ZZ", id |-> "1"]
Nameless == [qualifier |-> "BY", name |-> "Buyer Corp"]

GoodParties == {Buyer, Supplier, Depot}
AllParties == GoodParties \cup {Unlisted, Nameless}

Widget ==
    [product_code |-> "ITEM001", description |-> "Widget A (Special)",
     quantity |-> IntVal(10), price |-> "12.50", unit |-> "EA"]
Refund ==
    [product_code |-> "RET'1", quantity |-> TextVal("3"), price |-> "-0.05",
     unit |-> ""]
Bolt ==
    [product_code |-> "B+7", description |-> "Bolt\tM8", quantity |-> IntVal(7),
     price |-> "0.3"]
Unpriced == [Widget EXCEPT !.price = "abc"]
Uncounted == [Widget EXCEPT !.quantity = TextVal("ten")]
TooFine == [Widget EXCEPT !.price = "12.505"]
LongCode ==
    [Widget EXCEPT !.product_code = "ITEM00000000000000000000000000000000036"]
NoPrice == Without(Widget, {"price"})

GoodItems == {Widget, Refund, Bolt}
AllItems ==
    GoodItems \cup {Unpriced, Uncounted, TooFine, LongCode, NoPrice}

BaseOrder ==
    [message_ref |-> Str("ORD0001"), order_number |-> Str("2025-0509-A"),
     order_date |-> Str("20250509"), parties |-> <<Buyer>>,
     items |-> <<Widget>>]

OptionalKeys ==
    {"delivery_date", "currency", "delivery_location", "payment_terms",
     "tax_rate", "special_instructions", "incoterms"}

FullOrder ==
    BaseOrder @@
    [delivery_date |-> Str("20250516"), currency |-> Str("USD"),
     delivery_location |-> Str("WAREHOUSE1"), payment_terms |-> Str("NET30"),
     tax_rate |-> Num("7.5"),
     special_instructions |->
        Str("Please deliver during business hours 9AM-5PM. Contact John Doe at extension 123 for delivery coordination."),
     incoterms |-> Str("FOB")]

\* Orders that differ in their parties and items
StructureOrders ==
    {With(With(With(FullOrder, "tax_rate", Num("50")), "parties", ps),
          "items", its) :
        ps \in SeqsUpTo(GoodParties, MaxParties),
        its \in SeqsUpTo(GoodItems, MaxItems)}
    \cup {With(BaseOrder, "parties", ps) : ps \in SeqsUpTo(AllParties, MaxParties)}
    \cup {With(o, "items", its) :
            o \in {BaseOrder, With(BaseOrder, "tax_rate", Num("50"))},
            its \in SeqsUpTo(AllItems, MaxItems)}

OddValues ==
    {Str(""), Str("\t"), Str("\tX1"), None,
     Str("0123456789012345678901234567890123456789")}

\* Orders that differ in their optional fields
OptionalOrders ==
    {Without(FullOrder, absent) : absent \in SUBSET OptionalKeys}
    \cup {With(o, key, v) :
            o \in {BaseOrder, FullOrder},
            key \in OptionalKeys \ {"tax_rate"},
            v \in OddValues}
    \cup {With(o, "tax_rate", v) :
            o \in {BaseOrder, FullOrder},
            v \in {Num("0"), Num("50"), Num("7.525"), Num("-7.5"), None,
                   Str("7.5")}}

\* Orders that lack required fields, or hold ill-formed ones
RequiredOrders ==
    {Without(FullOrder, absent) : absent \in SUBSET SchemaRequired}
    \cup {With(BaseOrder, "message_ref", v) :
            v \in {None, Str(""), Str("ORD000000000015"), Str("O'1?")}}
    \cup {With(FullOrder, key, Str(v)) :
            key \in {"order_date", "delivery_date"},
            v \in {"2025-13-40", "20250230", "20240229", "2025111", "", "250509"}}

ChunkSources == {"Ring?+bell:at'9*, then wait", "Leave\tat gate 12: ask for *Jo*"}

\* Orders that differ in the length of their special instructions
ChunkOrders ==
    {With(BaseOrder, "special_instructions", Str(SubSeq(t, 1, n))) :
        t \in ChunkSources, n \in 0..MaxTextLen}

NoArgs == [k \in {} |-> ""]

\* The configuration of the module's example run
SampleArgs ==
    [version |-> "4", release |-> "22A", controlling_agency |-> "ISO",
     line_ending |-> "\r\n", sender_id |-> "BUYER123",
     receiver_id |-> "SUPPLIER456", max_field_length |-> 70,
     max_segment_length |-> 2000]

LongUNA == "UNA:+.? '                                                   "

SegmentLimits == {9, 10, 45, 46, 50, 2000}

LimitArgs ==
    {Restrict([max_segment_length |-> n, una_segment |-> u, include_una |-> i],
              keys) :
        n \in SegmentLimits, u \in {LongUNA}, i \in BOOLEAN,
        keys \in {{"max_segment_length"}, {"max_segment_length", "una_segment"},
                  {"max_segment_length", "una_segment", "include_una"}}}

QualifierArgs ==
    {[allowed_qualifiers |-> q] :
        q \in SeqsUpTo({"BY", "SU", "B", "SUP"}, MaxQualifiers)}
    \cup {[allowed_qualifiers |-> q, max_segment_length |-> n] :
            q \in {<<>>, <<"BY">>, <<"B">>}, n \in {9, 10, 11}}

\* Parties that lack a key, or whose qualifier is unusual
Tabbed == [qualifier |-> "B\tY", id |-> "2"]
Plus == [qualifier |-> "B+", id |-> "5", name |-> "Plus"]
NoQualifier == [id |-> "9"]
Bare == [qualifier |-> "ZZ"]

PartyPool == AllParties \cup {Tabbed, Plus, NoQualifier, Bare}

\* Orders that differ in their parties only
PartyOrders ==
    {With(BaseOrder, "parties", ps) : ps \in SeqsUpTo(PartyPool, MaxParties)}

PartyArgs ==
    {NoArgs, [allowed_qualifiers |-> <<"SU", "B+">>],
     [allowed_qualifiers |-> <<"ZZ">>], [allowed_qualifiers |-> <<>>]}

\* Items that differ in the fraction digits of their price
Eighth == [product_code |-> "E8", quantity |-> IntVal(8), price |-> "0.125"]
Whole == [product_code |-> "W1", quantity |-> TextVal("2"), price |-> "7"]

PricePool == {Widget, TooFine, Eighth, Whole}

\* Orders that differ in the precision of their prices and tax rate
PrecisionOrders ==
    {With(o, "items", its) :
        o \in {BaseOrder} \cup {With(BaseOrder, "tax_rate", Num(r)) :
                                  r \in {"7.5", "7.525", "-0.05"}},
        its \in SeqsUpTo(PricePool, MaxItems)}

PrecisionArgs ==
    {[decimal_rounding |-> r] : r \in {"0.01", "0.1", "1"}}

\* The (configuration arguments, order record) pairs considered
Inputs ==
    ({NoArgs} \X StructureOrders)
    \cup ({NoArgs, SampleArgs, [include_una |-> FALSE],
           [decimal_rounding |-> "0.1"]}
          \X (OptionalOrders \cup RequiredOrders))
    \cup ({[max_field_length |-> m] : m \in 0..MaxFieldLen} \X ChunkOrders)
    \cup (LimitArgs \X {BaseOrder, FullOrder,
                        With(BaseOrder, "parties", <<Buyer, Supplier>>)})
    \cup (QualifierArgs \X {BaseOrder, With(BaseOrder, "parties", <<Supplier>>)})
    \cup (PartyArgs \X PartyOrders)
    \cup (PrecisionArgs \X PrecisionOrders)

Init ==
    /\ \E in \in Inputs : args = in[1] /\ data = in[2]
    /\ pc = "construct"
    /\ config = Unset
    /\ validated_data = Unset
    /\ segments = Unset
    /\ total_amount = Unset
    /\ idx = 0
    /\ error = ""
    /\ flat_segments = Unset
    /\ edifact_message = ""
    /\ value = ""
    /\ escaped = ""
    /\ details = Unset
    /\ heap = <<>>
    /\ data_ref = 0
    /\ copy_ref = 0
    /\ converted_items = 0

Next ==
    \/ Construct
    \/ Validate
    \/ BuildHeader
    \/ BuildParty
    \/ StartItems
    \/ BuildItem
    \/ BuildTax
    \/ BuildTrailer
    \/ Finish

Spec == Init /\ [][Next]_vars

(***************************************************************************)
(* The call with validate_order_data followed through memory               *)
(***************************************************************************)

\* The order records followed through memory
MemoryOrders ==
    {BaseOrder, FullOrder, With(FullOrder, "parties", <<Depot, Supplier>>)}
    \cup PartyOrders
    \cup {With(o, "items", its) :
            o \in {BaseOrder, With(BaseOrder, "tax_rate", Num("50"))},
            its \in SeqsUpTo(AllItems, MaxItems)}
    \cup {Without(FullOrder, absent) : absent \in SUBSET SchemaRequired}
    \cup {With(FullOrder, "order_date", Str("2025-13-40")),
          With(FullOrder, "delivery_date", Str("20250230"))}

MemoryInit ==
    /\ args = NoArgs
    /\ data \in MemoryOrders
    /\ heap = Store(<<>>, data).heap
    /\ data_ref = Store(<<>>, data).ref
    /\ copy_ref = 0
    /\ converted_items = 0
    /\ pc = "construct"
    /\ config = Unset
    /\ validated_data = Unset
    /\ segments = Unset
    /\ total_amount = Unset
    /\ idx = 0
    /\ error = ""
    /\ details = Unset
    /\ flat_segments = Unset
    /\ edifact_message = ""
    /\ value = ""
    /\ escaped = ""

MemoryNext ==
    \/ Construct
    \/ CopyInput
    \/ CheckShape
    \/ ConvertOne
    \/ AssignItems
    \/ CheckParties
    \/ BuildHeader
    \/ BuildParty
    \/ StartItems
    \/ BuildItem
    \/ BuildTax
    \/ BuildTrailer
    \/ Finish

MemorySpec == MemoryInit /\ [][MemoryNext]_vars

(***************************************************************************)
(* escape_edifact on its own                                               *)
(***************************************************************************)

EscapeAlphabet == {"a", "?", "'", "+", ":", "*", "\t"}

EscapeInit ==
    /\ value \in TextsUpTo(EscapeAlphabet, MaxEscapeLen)
    /\ escaped = ""
    /\ pc = "escape"
    /\ args = NoArgs
    /\ data = Unset
    /\ config = Unset
    /\ validated_data = Unset
    /\ segments = Unset
    /\ total_amount = Unset
    /\ idx = 0
    /\ error = ""
    /\ flat_segments = Unset
    /\ edifact_message = ""
    /\ details = Unset
    /\ heap = <<>>
    /\ data_ref = 0
    /\ copy_ref = 0
    /\ converted_items = 0

Escape ==
    /\ pc = "escape"
    /\ escaped' = escape_edifact(value)
    /\ pc' = "escaped"
    /\ UNCHANGED <<args, config, data, validated_data, segments, total_amount,
                   idx, error, flat_segments, edifact_message, value>>
    /\ UNCHANGED <<details, memory>>

EscapeSpec == EscapeInit /\ [][Escape]_vars

(***************************************************************************)
(* Properties                                                              *)
(***************************************************************************)

\* The call returned its string.
Returned == pc = "done"

\* The text of seg between the first "+" at or after position from and the
\* next "+".
FieldFrom(seg, from) ==
    LET stop == CHOOSE i \in from..Len(seg) :
                    CharAt(seg, i) = "+" /\ \A j \in from..(i - 1) : CharAt(seg, j) /= "+"
    IN  SubSeq(seg, from, stop - 1)

\* The positions of flat_segments holding a segment with the given prefix
Positions(prefix) ==
    {i \in 1..Len(flat_segments) : StartsWith(flat_segments[i], prefix)}

\* C1: whenever generation succeeds, the count the UNT segment declares is
\* the number of segments from UNH through UNT inclusive, that is one more
\* than the number of segments from UNH to the last one emitted before UNT;
\* UNA and UNB (before UNH) and UNZ (after UNT) are not counted.
C1_UntCount ==
    Returned =>
        \E u \in 1..Len(flat_segments) :
            LET t == Len(flat_segments) - 1
                n == t - u            \* the segments from UNH up to before UNT
            IN  /\ Positions("UNH+") = {u}
                /\ Positions("UNT+") = {t}
                /\ Positions("UNZ+") = {t + 1}
                /\ \A i \in 1..(u - 1) :
                      \/ StartsWith(flat_segments[i], "UNA")
                      \/ StartsWith(flat_segments[i], "UNB+")
                /\ FieldFrom(flat_segments[t], 5) = IntStr(n + 1)

\* C1: a successful generation with two parties, two items and free text
C1_Witness ==
    /\ Returned
    /\ Len(data.parties) = 2
    /\ Len(data.items) = 2
    /\ Positions("FTX+") /= {}
    /\ Positions("UNA") = {1}

\* s with the control characters left out
RECURSIVE WithoutControl(_)
WithoutControl(s) ==
    IF Len(s) = 0 THEN ""
    ELSE WithoutControl(SubSeq(s, 1, Len(s) - 1))
         \o (IF CharAt(s, Len(s)) \in {"\t", "\n", "\r", "\f"} THEN ""
             ELSE CharAt(s, Len(s)))

EndsWith(s, suffix) ==
    Len(s) >= Len(suffix) /\ SubSeq(s, Len(s) - Len(suffix) + 1, Len(s)) = suffix

RECURSIVE Flatten(_)
Flatten(lists) ==
    IF Len(lists) = 0 THEN <<>> ELSE Head(lists) \o Flatten(Tail(lists))

\* What a segment is expected to look like: how it starts and how it ends
Expect(pre, suf) == [pre |-> pre, suf |-> suf]

Matches(seg, e) == StartsWith(seg, e.pre) /\ EndsWith(seg, e.suf)

\* Whether a text counts as given: non-empty as the caller wrote it, or
\* (clean) non-empty once its control characters are stripped
Given(text, clean) == (IF clean THEN WithoutControl(text) ELSE text) /= ""

GivenField(key, clean) == key \in DOMAIN data /\ Given(data[key].s, clean)

\* The segments the order record and configuration call for, in order, with
\* nftx FTX segments
ExpectedSegments(clean, nftx) ==
    LET opt(key, pre) ==
            IF GivenField(key, clean) THEN <<Expect(pre, "'")>> ELSE <<>>
        party(p) ==
            <<Expect("NAD+", "'")>>
            \o (IF "address" \in DOMAIN p /\ Given(p.address, clean)
                THEN <<Expect("COM+", ":AD'")>> ELSE <<>>)
            \o (IF "contact" \in DOMAIN p /\ Given(p.contact, clean)
                THEN <<Expect("COM+", ":TE'")>> ELSE <<>>)
        item(i) ==
            <<Expect("LIN+" \o IntStr(i) \o "++", ":EN'"),
              Expect("IMD+F++:::", "'"),
              Expect("QTY+21:", "'"),
              Expect("PRI+AAA:", "'")>>
    IN  (IF config.include_una THEN <<Expect(config.una_segment, "")>> ELSE <<>>)
        \o <<Expect("UNB+UNOA:2+", "'"), Expect("UNH+", "'"),
             Expect("BGM+220+", "+9'"), Expect("DTM+137:", "'")>>
        \o opt("delivery_date", "DTM+2:")
        \o opt("currency", "CUX+2:")
        \o Flatten([i \in 1..Len(data.parties) |-> party(data.parties[i])])
        \o Flatten([i \in 1..Len(data.items) |-> item(i)])
        \o (IF "tax_rate" \in DOMAIN data /\ data.tax_rate /= None
            THEN <<Expect("TAX+7+VAT+++:::", "'"), Expect("MOA+124:", "'")>>
            ELSE <<>>)
        \o opt("delivery_location", "LOC+11+")
        \o opt("payment_terms", "PAI+")
        \o opt("incoterms", "TOD+5++")
        \o [k \in 1..nftx |-> Expect("FTX+AAI+" \o IntStr(k) \o "+++", "'")]
        \o <<Expect("MOA+79:", "'"), Expect("UNT+", "'"), Expect("UNZ+1+", "'")>>

SegmentsAsExpected(clean) ==
    LET nftx == Cardinality(Positions("FTX+"))
        exp  == ExpectedSegments(clean, nftx)
    IN  /\ nftx >= 1 <=> GivenField("special_instructions", clean)
        /\ Len(flat_segments) = Len(exp)
        /\ \A i \in 1..Len(exp) : Matches(flat_segments[i], exp[i])

\* C2 as stated: every returned interchange holds UNA (when include_una),
\* UNB, UNH, BGM, DTM(137), [DTM(2)], [CUX], per party NAD [COM AD] [COM TE],
\* per item LIN i, IMD, QTY, PRI, [TAX, MOA(124)], [LOC], [PAI], [TOD],
\* [FTX ...], MOA(79), UNT, UNZ+1 in this order, an optional segment being
\* there exactly when the caller's field is present and non-empty.
C2_OrderAsStated == Returned => SegmentsAsExpected(FALSE)

\* C2, amended: the same order of segments, an optional segment being there
\* exactly when its field is present and still non-empty once its control
\* characters have been stripped (tax_rate: present and not None).
C2_SegmentOrder == Returned => SegmentsAsExpected(TRUE)

\* C2: an interchange returned for an order whose currency holds control
\* characters only and whose other optional fields are filled in
C2_Witness ==
    /\ Returned
    /\ "currency" \in DOMAIN data
    /\ data.currency = Str("\t")
    /\ Positions("CUX+") = {}
    /\ Positions("DTM+2:") /= {}
    /\ Positions("TAX+") /= {}
    /\ Positions("FTX+AAI+2+") /= {}

\* The call ended with an exception.
Failed == pc = "failed"

ValidationCodes ==
    {"VALID_001", "VALID_002", "VALID_003", "VALID_004", "VALID_005",
     "VALID_006", "VALID_007", "VALID_008", "VALID_009"}

\* C3: a run that ends in a validation error (VALID_001 .. VALID_009) has
\* built no segment when the error is raised, and returns no string.
C3_FailFast ==
    (Failed /\ error \in ValidationCodes) =>
        /\ Len(segments) = 0
        /\ edifact_message = ""

\* C4: an order that lacks one of message_ref, order_number, order_date,
\* parties, items fails with VALID_001.
C4_MissingFieldIsValid001 ==
    (pc \notin {"construct", "config_error"}
     /\ ~(SchemaRequired \subseteq DOMAIN data)) =>
        (pc = "validate" \/ (Failed /\ error = "VALID_001"))

\* The order passes the schema, presence, non-empty-items and date gates.
PassesEarlyGates ==
    LET d == sanitize_input(data)
    IN  /\ validate_with_schema(d)
        /\ Len(d.items) > 0
        /\ validate_date(d.order_date.s, config.date_format)
        /\ Truthy(d, "delivery_date") =>
              validate_date(d.delivery_date.s, config.date_format)

\* The item's product code is present and within 35 characters.
CodeInBounds(item) ==
    "product_code" \in DOMAIN item /\ Len(item.product_code) <= 35

\* The item's quantity is no integer, or its price no decimal number.
Inconvertible(item) ==
    \/ "quantity" \in DOMAIN item /\ item.quantity.k = "str"
       /\ ~ParseInt(WithoutControl(item.quantity.s)).ok
    \/ "price" \in DOMAIN item /\ ~ParseDecimal(WithoutControl(item.price)).ok

\* C5: once the schema, presence, non-empty-items and date gates are
\* passed, an item whose quantity or price cannot be converted makes
\* validation fail with VALID_005, and with nothing else.
C5_InconvertibleIsValid005 ==
    (/\ pc \notin {"construct", "config_error", "validate"}
     /\ PassesEarlyGates
     /\ \A i \in 1..Len(data.items) : CodeInBounds(data.items[i])
     /\ \E i \in 1..Len(data.items) : Inconvertible(data.items[i])) =>
        (Failed /\ error = "VALID_005")

\* C9: every segment of a returned interchange, UNA included, is at most
\* config.max_segment_length long.
C9_SegmentsWithinLimit ==
    Returned =>
        \A i \in 1..Len(flat_segments) :
            Len(flat_segments[i]) <= config.max_segment_length

\* C10: every constructed EdifactConfig has a non-empty allowed_qualifiers,
\* each qualifier two characters long, and max_segment_length >= 10.
C10_ConfigValid ==
    pc \notin {"construct", "config_error"} =>
        /\ Len(config.allowed_qualifiers) > 0
        /\ \A i \in 1..Len(config.allowed_qualifiers) :
              Len(config.allowed_qualifiers[i]) = 2
        /\ config.max_segment_length >= 10

\* De-escaping, left to right: "?" followed by a character c yields c.
RECURSIVE Unescape(_)
Unescape(s) ==
    IF Len(s) = 0 THEN ""
    ELSE IF CharAt(s, 1) = "?" /\ Len(s) >= 2
    THEN CharAt(s, 2) \o Unescape(SubSeq(s, 3, Len(s)))
    ELSE CharAt(s, 1) \o Unescape(Rest(s))

\* The positions of e, from i on, read as escape markers.
RECURSIVE Markers(_, _)
Markers(e, i) ==
    IF i > Len(e) THEN {}
    ELSE IF CharAt(e, i) = "?" THEN {i} \cup Markers(e, i + 2)
    ELSE Markers(e, i + 1)

\* C6: de-escaping escape_edifact(s) gives back s without its control
\* characters, and in escape_edifact(s) every ', +, :, * and ? that is no
\* escape marker comes right after one (and every marker escapes something).
C6_EscapeRoundTrip ==
    pc = "escaped" =>
        /\ Unescape(escaped) = WithoutControl(value)
        /\ \A j \in 1..Len(escaped) :
              /\ (CharAt(escaped, j) \in {"'", "+", ":", "*", "?"}
                  /\ j \notin Markers(escaped, 1)) =>
                    (j > 1 /\ (j - 1) \in Markers(escaped, 1))
              /\ j \in Markers(escaped, 1) => j < Len(escaped)

\* C6: a text with the release character, a reserved character and a
\* control character has been escaped
C6_Witness == pc = "escaped" /\ value = "?'\t" /\ escaped = "???'"

\* The number of 10^-p units nearest to num/den, ties away from zero
RoundHalfAway(num, den, p) ==
    LET mag == IF num < 0 THEN 0 - num ELSE num
        n   == (2 * mag * Pow10(p) + den) \div (2 * den)
    IN  IF num < 0 THEN 0 - n ELSE n

\* The quantity and the price the caller gave for an item
QuantityGiven(item) ==
    IF item.quantity.k = "int" THEN item.quantity.n
    ELSE ParseInt(WithoutControl(item.quantity.s)).n

PriceGiven(item) == ParseDecimal(WithoutControl(item.price))

\* round_half_up(price x quantity, precision), in units of 10^-p
LineUnits(item, p) ==
    LET price == PriceGiven(item)
    IN  RoundHalfAway(Scaled(price, price.exp) * QuantityGiven(item),
                      Pow10(price.exp), p)

RECURSIVE GoodsUnits(_, _)
GoodsUnits(items, p) ==
    IF Len(items) = 0 THEN 0
    ELSE LineUnits(Head(items), p) + GoodsUnits(Tail(items), p)

\* round_half_up(goods_total x tax_rate / 100, precision), in units of 10^-p
TaxUnits(goods, p) ==
    LET rate == ParseDecimal(data.tax_rate.s)
    IN  RoundHalfAway(goods * Scaled(rate, rate.exp),
                      100 * Pow10(p) * Pow10(rate.exp), p)

\* The segment is prefix, then the amount units x 10^-p printed with p
\* fraction digits, then the terminator.
CarriesAmount(seg, prefix, units, p) ==
    LET printed == ParseDecimal(SubSeq(seg, Len(prefix) + 1, Len(seg) - 1))
    IN  /\ StartsWith(seg, prefix)
        /\ EndsWith(seg, "'")
        /\ printed.ok
        /\ printed.exp = p
        /\ Scaled(printed, p) = units

\* C7: in every returned interchange MOA(79) carries the sum of the rounded
\* line totals plus, when tax_rate is given, the tax amount
\* round_half_up(goods x tax_rate / 100), which MOA(124) carries; ties round
\* away from zero.  10 x 12.50 gives 125.00, and with tax_rate 7.5 gives
\* tax 9.38 and total 134.38.
C7_Totals ==
    Returned =>
        LET p     == ParseDecimal(config.decimal_rounding).exp
            goods == GoodsUnits(data.items, p)
            taxed == "tax_rate" \in DOMAIN data
            taxu  == IF taxed THEN TaxUnits(goods, p) ELSE 0
            last  == flat_segments[Len(flat_segments) - 2]
        IN  /\ CarriesAmount(last, "MOA+79:", goods + taxu, p)
            /\ taxed =>
                  \E i \in 1..Len(flat_segments) :
                      /\ Positions("MOA+124:") = {i}
                      /\ CarriesAmount(flat_segments[i], "MOA+124:", taxu, p)
            /\ (data.items = <<Widget>> /\ p = 2 /\ ~taxed) =>
                  last = "MOA+79:125.00'"
            /\ (data.items = <<Widget>> /\ p = 2 /\ taxed
                /\ data.tax_rate = Num("7.5")) =>
                  /\ last = "MOA+79:134.38'"
                  /\ \E i \in 1..Len(flat_segments) :
                        flat_segments[i] = "MOA+124:9.38'"

\* C7: the order of one item, 10 x 12.50, taxed at 7.5, has been generated
C7_Witness ==
    /\ Returned
    /\ data.items = <<Widget>>
    /\ "tax_rate" \in DOMAIN data
    /\ data.tax_rate = Num("7.5")
    /\ flat_segments[Len(flat_segments) - 2] = "MOA+79:134.38'"

\* What C8 says of the FTX segments of a returned interchange, for special
\* instructions t (control characters removed), non-empty, and
\* max_field_length m >= 1: there are ceil(len(t)/m) of them, numbered
\* 1, 2, ...; every chunk but the last is m characters of t, the last the
\* remaining 1..m, and together they spell t.  For a text of length 3m+5
\* and m >= least, there are 4 of them, of m, m, m and 5 characters.
ChunkedAsClaimed(least) ==
    LET given == "special_instructions" \in DOMAIN data
        t     == WithoutControl(data.special_instructions.s)
        m     == config.max_field_length
        IsFTX(seg) == StartsWith(seg, "FTX+")
        F     == SelectSeq(flat_segments, IsFTX)
        n     == Len(F)
        head(i) == "FTX+AAI+" \o IntStr(i) \o "+++"
        chunk(i) == Unescape(SubSeq(F[i], Len(head(i)) + 1, Len(F[i]) - 1))
    IN  (Returned /\ given /\ t /= "" /\ m >= 1) =>
            /\ n * m >= Len(t)
            /\ (n - 1) * m < Len(t)
            /\ \A i \in 1..n :
                  /\ Matches(F[i], Expect(head(i), "'"))
                  /\ i < n => Len(chunk(i)) = m
                  /\ i = n => Len(chunk(i)) \in 1..m
            /\ Join("", [i \in 1..n |-> chunk(i)]) = t
            /\ (Len(t) = 3 * m + 5 /\ m >= least) =>
                  /\ n = 4
                  /\ \A i \in 1..3 : Len(chunk(i)) = m
                  /\ Len(chunk(4)) = 5

\* C8 as stated: the chunking rule, a text of length 3m+5 giving four FTX
\* segments of m, m, m and 5 characters for every m >= 1.
C8_ChunkingAsStated == ChunkedAsClaimed(1)

\* C8, amended: the chunking rule, a text of length 3m+5 giving four FTX
\* segments of m, m, m and 5 characters when m >= 5.
C8_Chunking == ChunkedAsClaimed(5)

\* C8: a text of length 3m+5, m = 5, holding control and reserved
\* characters, has been generated into four FTX segments
C8_Witness ==
    /\ Returned
    /\ "special_instructions" \in DOMAIN data
    /\ config.max_field_length = 5
    /\ Len(WithoutControl(data.special_instructions.s)) = 20
    /\ Cardinality(Positions("FTX+")) = 4
    /\ data.special_instructions.s /= WithoutControl(data.special_instructions.s)

(***************************************************************************)
(* C11: the party gate                                                     *)
(***************************************************************************)

\* The codes of the gates that come before the party loop
EarlierGateCodes ==
    {"SCHEMA_001", "VALID_001", "VALID_002", "VALID_003", "VALID_004",
     "VALID_005", "VALID_007", "decimal.InvalidOperation"}

\* The call has come to the party loop of validate_order_data.
AtPartyGate ==
    /\ pc \notin {"construct", "config_error", "validate"}
    /\ ~(Failed /\ error \in EarlierGateCodes)

Lacks(p) == "qualifier" \notin DOMAIN p \/ "id" \notin DOMAIN p

Allowed(q) ==
    \E i \in 1..Len(config.allowed_qualifiers) :
        config.allowed_qualifiers[i] = q

\* The qualifier of the party as the caller wrote it, or (clean) once its
\* control characters are stripped
QualifierOf(p, clean) ==
    IF clean THEN WithoutControl(p.qualifier) ELSE p.qualifier

Offends(p, clean) == Lacks(p) \/ ~Allowed(QualifierOf(p, clean))

\* The text of s from position i up to the next "+" that is not escaped,
\* de-escaped
RECURSIVE UntilPlus(_, _)
UntilPlus(s, i) ==
    IF i > Len(s) \/ CharAt(s, i) = "+" THEN ""
    ELSE IF CharAt(s, i) = "?" /\ i < Len(s)
    THEN CharAt(s, i + 1) \o UntilPlus(s, i + 2)
    ELSE CharAt(s, i) \o UntilPlus(s, i + 1)

PartyGate(clean) ==
    AtPartyGate =>
        LET ps  == data.parties
            bad == {i \in 1..Len(ps) : Offends(ps[i], clean)}
        IN  /\ IF bad = {} THEN error \notin {"VALID_006", "VALID_008"}
               ELSE LET i == CHOOSE i \in bad : \A j \in bad : i <= j
                    IN  /\ Failed
                        /\ error = (IF Lacks(ps[i]) THEN "VALID_006"
                                    ELSE "VALID_008")
                        /\ details.party_index = i - 1
                        /\ ~Lacks(ps[i]) =>
                              /\ details.qualifier = QualifierOf(ps[i], clean)
                              /\ details.allowed = config.allowed_qualifiers
            /\ Returned =>
                  /\ Cardinality(Positions("NAD+")) = Len(ps)
                  /\ \A n \in Positions("NAD+") :
                        Allowed(UntilPlus(flat_segments[n], 5))

\* C11 as stated: once the earlier gates are passed, the first party, in
\* input order, that lacks qualifier or id or whose qualifier (as the caller
\* wrote it) is not in config.allowed_qualifiers ends validation, with
\* VALID_006 in the first case and VALID_008 in the second, its index in
\* the details; with no such party neither code is raised, and every NAD
\* segment of a returned interchange carries an allowed qualifier.
C11_PartyGateAsStated == PartyGate(FALSE)

\* C11 (amended): as above, for the qualifier once its control characters
\* are stripped.
C11_PartyGate == PartyGate(TRUE)

\* C11: validation failed with VALID_008 at the second party, the first
\* one having a qualifier that is allowed only once its tab is stripped
C11_Witness ==
    /\ Failed
    /\ error = "VALID_008"
    /\ details.party_index = 1
    /\ data.parties[1].qualifier = "B\tY"
    /\ data.parties[2].qualifier = "ZZ"

(***************************************************************************)
(* C12: the precision of prices and tax rate                               *)
(***************************************************************************)

\* The decimal number g has no digit beyond the p-th fraction digit, that
\* is, rounding it to p fraction digits leaves it as it is.
Fine(g, p) == g.exp <= p \/ g.coef % Pow10(g.exp - p) = 0

\* The decimal numbers a and b are the same number.
SameNumber(a, b) ==
    /\ a.coef * Pow10(b.exp) = b.coef * Pow10(a.exp)
    /\ a.coef /= 0 => a.neg = b.neg

IsPRI(seg) == StartsWith(seg, "PRI+AAA:")

IsTAX(seg) == StartsWith(seg, "TAX+7+VAT+++:::")

\* The number a PRI segment prints: from position 9 to the next ":"
PrintedPrice(seg) ==
    LET stop == CHOOSE i \in 9..Len(seg) :
                    CharAt(seg, i) = ":" /\ \A j \in 9..(i - 1) : CharAt(seg, j) /= ":"
    IN  ParseDecimal(SubSeq(seg, 9, stop - 1))

\* The number a TAX segment prints: from position 16 to the terminator
PrintedRate(seg) == ParseDecimal(SubSeq(seg, 16, Len(seg) - 1))

\* The call has come through validate_order_data.
PastValidation ==
    /\ pc \notin {"construct", "config_error", "validate"}
    /\ ~(Failed /\ error \in EarlierGateCodes \cup {"VALID_006", "VALID_008"})

\* C12: for an order that has passed validation, a price or a tax rate
\* with digits beyond the precision of config.decimal_rounding keeps the
\* call from getting past the item and tax loops, and the call fails with
\* VALID_009 unless a segment built before was too long (SEGMENT_001); and
\* at every moment the k-th PRI segment built prints the price of the k-th
\* item, and the TAX segment the tax rate, as the same number the caller
\* gave.
C12_Precision ==
    PastValidation =>
        LET p     == ParseDecimal(config.decimal_rounding).exp
            items == data.items
            taxed == "tax_rate" \in DOMAIN data
            rate  == ParseDecimal(data.tax_rate.s)
            pris  == SelectSeq(segments, IsPRI)
            taxes == SelectSeq(segments, IsTAX)
            toofine ==
                \/ \E i \in 1..Len(items) : ~Fine(PriceGiven(items[i]), p)
                \/ taxed /\ ~Fine(rate, p)
        IN  /\ toofine => pc \notin {"trailer", "finish", "done"}
            /\ (toofine /\ Failed /\ error /= "SEGMENT_001") =>
                  error = "VALID_009"
            /\ Len(pris) <= Len(items)
            /\ \A k \in 1..Len(pris) :
                  /\ PrintedPrice(pris[k]).ok
                  /\ SameNumber(PrintedPrice(pris[k]), PriceGiven(items[k]))
            /\ Len(taxes) <= 1
            /\ Len(taxes) = 1 =>
                  /\ taxed
                  /\ PrintedRate(taxes[1]).ok
                  /\ SameNumber(PrintedRate(taxes[1]), rate)

\* C12: the second item's price has a digit too many; the call failed with
\* VALID_009 after the PRI segment of the first item was built
C12_Witness ==
    /\ Failed
    /\ error = "VALID_009"
    /\ Len(data.items) = 2
    /\ data.items[2].price = "12.505"
    /\ config.decimal_rounding = "0.01"
    /\ Len(SelectSeq(segments, IsPRI)) = 1

(***************************************************************************)
(* C13: the caller's record is left as it was                              *)
(***************************************************************************)

\* The objects the caller has built for the order record
GivenObjects == Store(<<>>, data).heap

\* C13: at every moment of a call, whether it goes on to succeed or fails
\* at a gate, every object of the caller's record (the mapping, its two
\* lists, every party and every item) is as the caller built it, control
\* characters, prices, quantities and tax rate included; and neither
\* data_copy (the validated order) nor converted_items reaches any of
\* these objects.
C13_InputUntouched ==
    /\ SubSeq(heap, 1, Len(GivenObjects)) = GivenObjects
    /\ Load(heap, data_ref) = data
    /\ copy_ref /= 0 =>
          Reach(heap, copy_ref) \cap Reach(heap, data_ref) = {}
    /\ converted_items /= 0 =>
          Reach(heap, converted_items) \cap Reach(heap, data_ref) = {}
    /\ pc \in {"header", "parties", "items", "trailer", "finish", "done"} =>
          validated_data = validate_order_data(data, config).data
    /\ (Failed /\ Len(segments) = 0) =>
          /\ error = validate_order_data(data, config).err
          /\ details = validate_order_data(data, config).details

\* C13: a call has returned for a record with a tab in a party id and a
\* price given as text; the validated order holds the id stripped and the
\* price as a decimal number, the caller's record holds them as given
C13_Witness ==
    /\ Returned
    /\ data.parties = <<Depot, Supplier>>
    /\ data.items = <<Widget>>
    /\ Load(heap, copy_ref).parties[1].id = "77"
    /\ Load(heap, data_ref).parties[1].id = "7\t7"
    /\ Load(heap, data_ref).items[1].price = "12.50"
    /\ Load(heap, copy_ref).items[1].price = Dec(FALSE, 1250, 2)

====
